---- MODULE Spec2Model ----
(***************************************************************************)
(* A model of the rust-redis server (src/src/main.rs): the RESP decoder,   *)
(* the command extractor, the command executor over the shared, lock       *)
(* guarded store, the per-connection handler loop and the listener.        *)
(*                                                                         *)
(* Bytes are strings (a byte below 0x80 is its character), texts and       *)
(* buffers are sequences of bytes.  Buffer positions are 0-based as in the *)
(* source: the byte at position p of buf is buf[p + 1].                    *)
(***************************************************************************)
EXTENDS Integers, Sequences, FiniteSets, TLC

CR == "\r"
LF == "\n"
CRLF == <<CR, LF>>

(***************************************************************************)
(* Bytes, digits and letters.                                              *)
(***************************************************************************)
DigitChars == <<"0", "1", "2", "3", "4", "5", "6", "7", "8", "9">>
LowerChars == <<"a", "b", "c", "d", "e", "f", "g", "h", "i", "j", "k", "l", "m",
                "n", "o", "p", "q", "r", "s", "t", "u", "v", "w", "x", "y", "z">>
UpperChars == <<"A", "B", "C", "D", "E", "F", "G", "H", "I", "J", "K", "L", "M",
                "N", "O", "P", "Q", "R", "S", "T", "U", "V", "W", "X", "Y", "Z">>

IsDigit(ch) == \E i \in 1..10 : DigitChars[i] = ch
DigitVal(ch) == (CHOOSE i \in 1..10 : DigitChars[i] = ch) - 1

\* u8::to_ascii_uppercase
UpperChar(ch) ==
    IF \E i \in 1..26 : LowerChars[i] = ch
    THEN UpperChars[CHOOSE i \in 1..26 : LowerChars[i] = ch]
    ELSE ch

\* str::to_ascii_uppercase
to_ascii_uppercase(s) == [i \in 1..Len(s) |-> UpperChar(s[i])]

RECURSIVE DigitsVal(_, _)
\* the value of a string of decimal digits, most significant first
DigitsVal(s, acc) ==
    IF s = <<>> THEN acc ELSE DigitsVal(Tail(s), acc * 10 + DigitVal(s[1]))

AllDigits(s) == s # <<>> /\ \A i \in 1..Len(s) : IsDigit(s[i])

(***************************************************************************)
(* Numbers.  The integers of the program are 64 and 128 bits wide; a       *)
(* natural number of the program is held as the sequence of its digits in  *)
(* base 10^9, most significant first and without leading zeros: 5 is       *)
(* <<5>>, 1700000000000 is <<1700, 0>>.                                    *)
(***************************************************************************)
Base == 1000000000
Zero == <<0>>

RECURSIVE Canon(_)
\* a string of decimal digits without its leading zeros
Canon(s) == IF Len(s) > 1 /\ s[1] = "0" THEN Canon(Tail(s)) ELSE s

RECURSIVE ToNat(_)
\* the number a string of decimal digits without leading zeros stands for
ToNat(s) ==
    IF Len(s) <= 9 THEN <<DigitsVal(s, 0)>>
    ELSE ToNat(SubSeq(s, 1, Len(s) - 9)) \o <<DigitsVal(SubSeq(s, Len(s) - 8, Len(s)), 0)>>

RECURSIVE LexLess(_, _)
\* a < b on numbers of as many digits
LexLess(a, b) ==
    /\ a # <<>>
    /\ \/ a[1] < b[1]
       \/ a[1] = b[1] /\ LexLess(Tail(a), Tail(b))

\* a < b on natural numbers: the range tests of str::parse, and
\* x.expiry < get_time()
NatLess(a, b) == Len(a) < Len(b) \/ (Len(a) = Len(b) /\ LexLess(a, b))

RECURSIVE AddCarry(_, _, _)
\* the digits of a + b + carry
AddCarry(a, b, carry) ==
    IF a = <<>> /\ b = <<>>
    THEN IF carry = 0 THEN <<>> ELSE <<carry>>
    ELSE LET x == IF a = <<>> THEN 0 ELSE a[Len(a)]
             y == IF b = <<>> THEN 0 ELSE b[Len(b)]
             t == x + y + carry
         IN  AddCarry(SubSeq(a, 1, Len(a) - 1), SubSeq(b, 1, Len(b) - 1), t \div Base)
                 \o <<t % Base>>

\* a + b on natural numbers: get_time() + to_add.as_millis()
NatAdd(a, b) == AddCarry(a, b, 0)

\* i64::MAX, the magnitude of i64::MIN, u64::MAX
I64Max == <<9, 223372036, 854775807>>
I64MinMagnitude == <<9, 223372036, 854775808>>
U64Max == <<18, 446744073, 709551615>>

\* str::parse::<i64>: an optional sign, then one digit or more, of a value
\* from i64::MIN to i64::MAX; the value is n, or -n when neg
ParseI64(s) ==
    LET signed == s # <<>> /\ s[1] \in {"+", "-"}
        negative == s # <<>> /\ s[1] = "-"
        digits == IF signed THEN Tail(s) ELSE s
        n == ToNat(Canon(digits))
        limit == IF negative THEN I64MinMagnitude ELSE I64Max
    IN  IF ~AllDigits(digits) \/ NatLess(limit, n)
        THEN [ok |-> FALSE, neg |-> FALSE, n |-> Zero]
        ELSE [ok |-> TRUE, neg |-> negative /\ n # Zero, n |-> n]

\* str::parse::<u64>: an optional plus sign, then one digit or more, of a value
\* up to u64::MAX
ParseU64(s) ==
    LET digits == IF s # <<>> /\ s[1] = "+" THEN Tail(s) ELSE s
        n == ToNat(Canon(digits))
    IN  IF ~AllDigits(digits) \/ NatLess(U64Max, n)
        THEN [ok |-> FALSE, n |-> Zero]
        ELSE [ok |-> TRUE, n |-> n]

RECURSIVE Dec(_)
\* the decimal text of a natural number, as format!("{}", n) writes it
Dec(n) == IF n < 10 THEN <<DigitChars[n + 1]>>
                    ELSE Dec(n \div 10) \o <<DigitChars[(n % 10) + 1]>>

RECURSIVE Concat(_)
\* the concatenation of a sequence of texts: Vec<String>::join("")
Concat(ss) == IF ss = <<>> THEN <<>> ELSE ss[1] \o Concat(Tail(ss))

(***************************************************************************)
(* UTF-8.  A byte below 0x80 is its character; a byte from 0x80 to 0xff is *)
(* written \x and its two hexadecimal digits.                              *)
(***************************************************************************)
HighBytes ==
    << "\\x80", "\\x81", "\\x82", "\\x83", "\\x84", "\\x85", "\\x86", "\\x87",
       "\\x88", "\\x89", "\\x8a", "\\x8b", "\\x8c", "\\x8d", "\\x8e", "\\x8f",
       "\\x90", "\\x91", "\\x92", "\\x93", "\\x94", "\\x95", "\\x96", "\\x97",
       "\\x98", "\\x99", "\\x9a", "\\x9b", "\\x9c", "\\x9d", "\\x9e", "\\x9f",
       "\\xa0", "\\xa1", "\\xa2", "\\xa3", "\\xa4", "\\xa5", "\\xa6", "\\xa7",
       "\\xa8", "\\xa9", "\\xaa", "\\xab", "\\xac", "\\xad", "\\xae", "\\xaf",
       "\\xb0", "\\xb1", "\\xb2", "\\xb3", "\\xb4", "\\xb5", "\\xb6", "\\xb7",
       "\\xb8", "\\xb9", "\\xba", "\\xbb", "\\xbc", "\\xbd", "\\xbe", "\\xbf",
       "\\xc0", "\\xc1", "\\xc2", "\\xc3", "\\xc4", "\\xc5", "\\xc6", "\\xc7",
       "\\xc8", "\\xc9", "\\xca", "\\xcb", "\\xcc", "\\xcd", "\\xce", "\\xcf",
       "\\xd0", "\\xd1", "\\xd2", "\\xd3", "\\xd4", "\\xd5", "\\xd6", "\\xd7",
       "\\xd8", "\\xd9", "\\xda", "\\xdb", "\\xdc", "\\xdd", "\\xde", "\\xdf",
       "\\xe0", "\\xe1", "\\xe2", "\\xe3", "\\xe4", "\\xe5", "\\xe6", "\\xe7",
       "\\xe8", "\\xe9", "\\xea", "\\xeb", "\\xec", "\\xed", "\\xee", "\\xef",
       "\\xf0", "\\xf1", "\\xf2", "\\xf3", "\\xf4", "\\xf5", "\\xf6", "\\xf7",
       "\\xf8", "\\xf9", "\\xfa", "\\xfb", "\\xfc", "\\xfd", "\\xfe", "\\xff" >>

HighSet == {HighBytes[i] : i \in 1..Len(HighBytes)}

\* the value of a byte from 0x80
Ord(b) == 127 + (CHOOSE i \in 1..Len(HighBytes) : HighBytes[i] = b)

\* the byte at position i of s is there and has a value from lo to hi
ByteIn(s, i, lo, hi) ==
    /\ i <= Len(s)
    /\ s[i] \in HighSet
    /\ Ord(s[i]) >= lo /\ Ord(s[i]) <= hi

\* a continuation byte
Cont(s, i) == ByteIn(s, i, 128, 191)

\* the number of bytes of the well-formed sequence that starts at position i
\* of s, 0 if none does
Utf8Width(s, i) ==
    IF s[i] \notin HighSet THEN 1
    ELSE LET b == Ord(s[i])
         IN  CASE b \in 194..223 -> IF Cont(s, i + 1) THEN 2 ELSE 0
               [] b = 224 ->
                     IF ByteIn(s, i + 1, 160, 191) /\ Cont(s, i + 2) THEN 3 ELSE 0
               [] b \in (225..236) \cup (238..239) ->
                     IF Cont(s, i + 1) /\ Cont(s, i + 2) THEN 3 ELSE 0
               [] b = 237 ->
                     IF ByteIn(s, i + 1, 128, 159) /\ Cont(s, i + 2) THEN 3 ELSE 0
               [] b = 240 ->
                     IF ByteIn(s, i + 1, 144, 191) /\ Cont(s, i + 2) /\ Cont(s, i + 3)
                     THEN 4 ELSE 0
               [] b \in 241..243 ->
                     IF Cont(s, i + 1) /\ Cont(s, i + 2) /\ Cont(s, i + 3)
                     THEN 4 ELSE 0
               [] b = 244 ->
                     IF ByteIn(s, i + 1, 128, 143) /\ Cont(s, i + 2) /\ Cont(s, i + 3)
                     THEN 4 ELSE 0
               [] OTHER -> 0

RECURSIVE Utf8From(_, _)
\* the bytes of s from position i on are well-formed UTF-8: the bytes below
\* 0x80 are, and so is each sequence that starts at a byte from 0x80
Utf8From(s, i) ==
    LET high == {j \in i..Len(s) : s[j] \in HighSet}
        first == CHOOSE j \in high : \A k \in high : j <= k
    IN  \/ high = {}
        \/ Utf8Width(s, first) > 0 /\ Utf8From(s, first + Utf8Width(s, first))

\* String::from_utf8: Ok with the bytes as they are, or Err
from_utf8(bytes) ==
    [ok |-> Utf8From(bytes, 1), s |-> bytes]

(***************************************************************************)
(* enum Value                                                              *)
(***************************************************************************)
SimpleString(x) == [t |-> "SimpleString", s |-> x, a |-> <<>>]
BulkString(x) == [t |-> "BulkString", s |-> x, a |-> <<>>]
Array(v) == [t |-> "Array", s |-> <<>>, a |-> v]
NoValue == [t |-> "None", s |-> <<>>, a |-> <<>>]

IsString(v) == v.t \in {"SimpleString", "BulkString"}

(***************************************************************************)
(* Parser::parse_value.  A result is [ok, val, pos, err]: ok = FALSE is a  *)
(* panic of the calling task, err names the panic: "index" (a read of buf  *)
(* past its end), "utf8" (the bytes of a string or of the count are not    *)
(* UTF-8), "number" (the count does not parse), "unsupported" (the leading *)
(* byte is none of + $ star).                                              *)
(***************************************************************************)
Parsed(v, p) == [ok |-> TRUE, val |-> v, pos |-> p, err |-> "none"]
ParsePanic(why) == [ok |-> FALSE, val |-> NoValue, pos |-> 0, err |-> why]

RECURSIVE ScanCR(_, _)
\* while self.buf[self.pos] != b'\r' { self.pos += 1 }: the position of the
\* first CR at or after pos, or -1 when the loop reads past the end of buf
ScanCR(buf, pos) ==
    IF pos >= Len(buf) THEN -1
    ELSE IF buf[pos + 1] = CR THEN pos
    ELSE ScanCR(buf, pos + 1)

\* data.push(self.buf[self.pos]) in the loop: the bytes of buf at positions
\* from..to-1
Slice(buf, from, to) == SubSeq(buf, from + 1, to)

\* b'+' arm
ParseSimple(buf, pos) ==
    LET e == ScanCR(buf, pos + 1)
        s == from_utf8(Slice(buf, pos + 1, e))
    IN  IF e = -1 THEN ParsePanic("index")
        ELSE IF ~s.ok THEN ParsePanic("utf8")
        ELSE Parsed(SimpleString(s.s), e + 2)

\* b'$' arm: skips four bytes, then reads up to the next CR
ParseBulk(buf, pos) ==
    LET e == ScanCR(buf, pos + 4)
        s == from_utf8(Slice(buf, pos + 4, e))
    IN  IF e = -1 THEN ParsePanic("index")
        ELSE IF ~s.ok THEN ParsePanic("utf8")
        ELSE Parsed(BulkString(s.s), e + 2)

\* the number of rounds of `for _ in 0..items` that matter: a round that
\* returns has read bytes of buf, so when items is above Len(buf) the loop ends
\* in the panic of one of its first Len(buf) + 1 rounds
Rounds(items, buf) ==
    IF items.neg THEN 0
    ELSE IF NatLess(<<Len(buf)>>, items.n) THEN Len(buf) + 1
    ELSE items.n[1]

RECURSIVE parse_value(_, _), ParseItems(_, _, _, _)
\* for _ in 0..items { array.push(self.parse_value()) }
ParseItems(buf, pos, items, array) ==
    IF items <= 0 THEN Parsed(Array(array), pos)
    ELSE LET r == parse_value(buf, pos)
         IN  IF ~r.ok THEN r
             ELSE ParseItems(buf, r.pos, items - 1, Append(array, r.val))

\* b'*' arm
ParseArray(buf, pos) ==
    IF pos + 1 >= Len(buf) THEN ParsePanic("index")
    ELSE LET p == IF buf[pos + 2] \in {"+", "-"} THEN pos + 2 ELSE pos + 1
             e == ScanCR(buf, p)
             number_data == from_utf8(Slice(buf, p, e))
             items == ParseI64(number_data.s)
         IN  IF e = -1 THEN ParsePanic("index")
             ELSE IF ~number_data.ok THEN ParsePanic("utf8")
             ELSE IF ~items.ok THEN ParsePanic("number")
             ELSE ParseItems(buf, e + 2, Rounds(items, buf), <<>>)

parse_value(buf, pos) ==
    IF pos >= Len(buf) THEN ParsePanic("index")
    ELSE CASE buf[pos + 1] = "+" -> ParseSimple(buf, pos)
           [] buf[pos + 1] = "$" -> ParseBulk(buf, pos)
           [] buf[pos + 1] = "*" -> ParseArray(buf, pos)
           [] OTHER -> ParsePanic("unsupported")

(***************************************************************************)
(* get_command: the name and the arguments of a decoded command, or a      *)
(* panic (ok = FALSE).                                                     *)
(***************************************************************************)
Command(x, rest) == [ok |-> TRUE, name |-> x, args |-> rest]
NoCommand == [ok |-> FALSE, name |-> <<>>, args |-> <<>>]

get_command(val) ==
    IF val.t # "Array" THEN NoCommand                  \* "Not a command"
    ELSE IF val.a = <<>> THEN NoCommand                \* v[0] out of bounds
    ELSE IF ~IsString(val.a[1]) THEN NoCommand         \* "Not a string"
    ELSE Command(val.a[1].s, Tail(val.a))

(***************************************************************************)
(* Time.  get_time() is a u128 count of milliseconds, and so is            *)
(* Duration::as_millis(); the sum of a clock reading and a u64 count of    *)
(* milliseconds is below 2^128.                                            *)
(***************************************************************************)
\* Duration::from_secs(secs).as_millis()
from_secs(secs) == ToNat(Dec(secs) \o <<"0", "0", "0">>)

\* Duration::from_millis(n).as_millis(): the u64 as a u128
from_millis(n) == n

\* Duration::from_secs(3600 * 24 * 365).as_millis()
DefaultTtl == from_secs(3600 * 24 * 365)

\* the whole seconds and the milliseconds over of a clock reading (below
\* 10^18 milliseconds)
Secs(t) == IF Len(t) = 1 THEN t[1] \div 1000
                         ELSE t[1] * (Base \div 1000) + t[2] \div 1000
Millis(t) == t[Len(t)] % 1000

(***************************************************************************)
(* Replies of handle_command.                                              *)
(***************************************************************************)
PongReply == <<"+", "P", "O", "N", "G">> \o CRLF
OkReply == <<"+", "O", "K">> \o CRLF
NullReply == <<"$", "-", "1">> \o CRLF
\* format!("+{}\r\n", ...)
SimpleReply(x) == <<"+">> \o x \o CRLF
\* format!("${}\r\n{}\r\n", x.value.len(), x.value)
BulkReply(x) == <<"$">> \o Dec(Len(x)) \o CRLF \o x \o CRLF

T_PING == <<"P", "I", "N", "G">>
T_ECHO == <<"E", "C", "H", "O">>
T_SET == <<"S", "E", "T">>
T_GET == <<"G", "E", "T">>
T_PX == <<"P", "X">>

(***************************************************************************)
(* struct StoredValue and the HashMap<String, StoredValue>: a function     *)
(* whose domain is the set of keys inserted so far.                        *)
(***************************************************************************)
StoredValue(v, e) == [value |-> v, expiry |-> e]

\* a variant of Insert that keeps the expiry of an entry it overwrites
InsertKeepExpiry(map, key, sv) ==
    [k \in DOMAIN map \cup {key} |->
        IF k = key
        THEN IF key \in DOMAIN map THEN StoredValue(sv.value, map[key].expiry)
                                   ELSE sv
        ELSE map[k]]

\* a variant of Insert that leaves the new entry alone in the map
InsertAlone(map, key, sv) == [k \in {key} |-> sv]

\* HashMap::insert
Insert(map, key, sv) ==
    [k \in DOMAIN map \cup {key} |-> IF k = key THEN sv ELSE map[k]]

\* a variant of Expired with the comparison turned round
ExpiredInverted(sv, t) == NatLess(t, sv.expiry)

\* x.expiry < get_time()
Expired(sv, t) == NatLess(sv.expiry, t)

\* the GET arm once the read guard is held
GetReply(map, key, t) ==
    IF key \in DOMAIN map
    THEN IF Expired(map[key], t) THEN NullReply ELSE BulkReply(map[key].value)
    ELSE NullReply

(***************************************************************************)
(* handle_command up to its first suspension point.  The result is         *)
(*   [kind |-> "reply", reply]        PING and ECHO: the reply is ready    *)
(*   [kind |-> "set", key, value, ttl] SET: about to call store.write()    *)
(*   [kind |-> "get", key]            GET: about to call store.read()      *)
(*   [kind |-> "panic", why]          the task panics; why is "utf8",      *)
(*                                     "protocol", "command", "argument"   *)
(*                                     or "unknown"                        *)
(***************************************************************************)
Step(kind, reply, key, value, ttl, why) ==
    [kind |-> kind, reply |-> reply, key |-> key, value |-> value,
     ttl |-> ttl, why |-> why]
StepReply(r) == Step("reply", r, <<>>, <<>>, Zero, "none")
StepSet(k, v, ttl) == Step("set", <<>>, k, v, ttl, "none")
StepGet(k) == Step("get", <<>>, k, <<>>, Zero, "none")
StepPanic(why) == Step("panic", <<>>, <<>>, <<>>, Zero, why)

\* "ECHO" arm
EchoArm(args) ==
    IF \E i \in 1..Len(args) : ~IsString(args[i]) THEN StepPanic("argument")
    ELSE StepReply(SimpleReply(Concat([i \in 1..Len(args) |-> args[i].s])))

\* a variant of SetTtl that never looks at the options
SetTtlDefault(cmd) == [ok |-> TRUE, ttl |-> DefaultTtl]

\* to_add of the "SET" arm: the default, replaced only when cmd.len() == 4
SetTtl(cmd) ==
    IF Len(cmd) = 4
    THEN IF ~IsString(cmd[3]) THEN [ok |-> FALSE, ttl |-> Zero]
         ELSE IF to_ascii_uppercase(cmd[3].s) # T_PX THEN [ok |-> FALSE, ttl |-> Zero]
         ELSE IF ~IsString(cmd[4]) THEN [ok |-> FALSE, ttl |-> Zero]
         ELSE IF ~ParseU64(cmd[4].s).ok THEN [ok |-> FALSE, ttl |-> Zero]
         ELSE [ok |-> TRUE, ttl |-> from_millis(ParseU64(cmd[4].s).n)]
    ELSE [ok |-> TRUE, ttl |-> DefaultTtl]

\* "SET" arm up to store.write()
SetArm(cmd) ==
    IF Len(cmd) < 1 THEN StepPanic("argument")
    ELSE IF ~IsString(cmd[1]) THEN StepPanic("argument")
    ELSE IF Len(cmd) < 2 THEN StepPanic("argument")
    ELSE IF ~IsString(cmd[2]) THEN StepPanic("argument")
    ELSE IF ~SetTtl(cmd).ok THEN StepPanic("argument")
    ELSE StepSet(cmd[1].s, cmd[2].s, SetTtl(cmd).ttl)

\* "GET" arm up to store.read()
GetArm(args) ==
    IF Len(args) < 1 THEN StepPanic("argument")
    ELSE IF ~IsString(args[1]) THEN StepPanic("argument")
    ELSE StepGet(args[1].s)

handle_command(command) ==
    LET name == to_ascii_uppercase(command.name)
    IN  CASE name = T_PING -> StepReply(PongReply)
          [] name = T_ECHO -> EchoArm(command.args)
          [] name = T_SET -> SetArm(command.args)
          [] name = T_GET -> GetArm(command.args)
          [] OTHER -> StepPanic("unknown")

\* one iteration of handle_client from the bytes of one read up to the
\* first suspension point of handle_command: the bytes are made a String for
\* the log line, then decoded
Decode(buf) ==
    LET r == parse_value(buf, 0)
    IN  IF ~from_utf8(buf).ok THEN StepPanic("utf8")
        ELSE IF ~r.ok THEN StepPanic("protocol")
        ELSE IF ~get_command(r.val).ok THEN StepPanic("command")
        ELSE handle_command(get_command(r.val))

(***************************************************************************)
(* What clients send.  EncodeCommand is the RESP encoding a client gives a *)
(* command: an array of bulk strings.                                      *)
(***************************************************************************)
EncodeBulk(x) == <<"$">> \o Dec(Len(x)) \o CRLF \o x \o CRLF
EncodeCommand(tokens) ==
    <<"*">> \o Dec(Len(tokens)) \o CRLF
        \o Concat([i \in 1..Len(tokens) |-> EncodeBulk(tokens[i])])

K1 == <<"k">>
K2 == <<"j">>
VA == <<"a">>
VB == <<"b">>

SetPx(k, v, ms) == <<T_SET, k, v, T_PX, ms>>

\* u64::MAX in decimal digits
U64MaxText ==
    <<"1", "8", "4", "4", "6", "7", "4", "4", "0", "7",
      "3", "7", "0", "9", "5", "5", "1", "6", "1", "5">>

\* a byte that is no UTF-8 on its own
NotUtf8 == <<"\\xff">>

\* SET and GET on one key, without and with PX
KvCommands ==
    { <<T_SET, K1, VA>>,
      SetPx(K1, VB, <<"0">>),
      <<T_GET, K1>> }

\* SET with PX, of no millisecond and of one, and GET on one key
PxCommands ==
    { SetPx(K1, VB, <<"0">>),
      SetPx(K1, VA, <<"1">>),
      <<T_GET, K1>> }

\* the shapes of SET: two to five arguments, PX in either case, other options,
\* a count of milliseconds of twenty digits
SetCommands ==
    { <<T_SET, K1, VA>>,
      <<<<"s", "e", "t">>, K2, VB, <<"p", "x">>, <<"1">>>>,
      <<T_SET, K1, VB, T_PX>>,
      <<T_SET, K2, VA, <<"X", "X">>>>,
      <<T_SET, K1, VB, T_PX, <<"0">>, <<"N", "X">>>>,
      <<T_SET, K1, VB, <<"E", "X">>, <<"1">>>>,
      <<T_SET, K1, VA, T_PX, <<"x">>>>,
      <<T_SET, K2, VA, T_PX, <<"+", "1">>>>,
      <<T_SET, K2, VA, T_PX, <<"-", "1">>>>,
      SetPx(K2, VB, U64MaxText),
      <<T_GET, K1>> }

\* commands the executor rejects, and commands it accepts
ErrCommands ==
    { <<T_SET, K1>>,
      <<T_SET>>,
      <<T_GET>>,
      <<T_SET, K1, VB, T_PX, <<"x">>>>,
      <<<<"F", "O", "O">>>>,
      <<<<"p", "i", "n", "g">>>>,
      <<T_ECHO, <<"\\xc3", "\\xa9">>>>,
      <<T_ECHO, NotUtf8>>,
      <<T_SET, K1, VA>>,
      <<T_GET, K1>> }

\* frames that are no array of bulk strings, and a frame followed by a byte
\* that is no UTF-8
RawFrames ==
    { <<"+">> \o T_PING \o CRLF,
      EncodeCommand(<<T_PING>>) \o NotUtf8,
      <<"*", "0">> \o CRLF,
      <<"*", "2">> \o CRLF \o EncodeBulk(T_GET) \o <<"*", "0">> \o CRLF,
      <<"*", "3">> \o CRLF \o EncodeBulk(T_SET) \o <<"*", "0">> \o CRLF \o EncodeBulk(VA),
      <<"?">> \o CRLF }

\* what pipelining clients send
NetCommands ==
    { <<T_PING>>,
      <<T_ECHO, VA, VB>>,
      <<T_ECHO, NotUtf8>>,
      <<T_SET, K1, VA>>,
      <<T_GET, K1>>,
      <<<<"F", "O", "O">>>> }

Encoded(cmds) == {EncodeCommand(t) : t \in cmds}
\* SET k v PX with the greatest count of milliseconds and with the count after
\* it, the count sent with a length token of one digit
LongPx ==
    { <<"*", "5">> \o CRLF \o EncodeBulk(T_SET) \o EncodeBulk(K1) \o EncodeBulk(VA)
          \o EncodeBulk(T_PX) \o <<"$", "9">> \o CRLF \o ms \o CRLF :
      ms \in {U64MaxText, SubSeq(U64MaxText, 1, Len(U64MaxText) - 1) \o <<"6">>} }

SetFrames == Encoded(SetCommands) \cup LongPx
ErrFrames == Encoded(ErrCommands) \cup RawFrames

(***************************************************************************)
(* The server.                                                             *)
(***************************************************************************)
Conns == {"A", "B"}
None == "-"

\* the total number of times the clients send a frame or close their end
MaxSends == 3
\* the number of milliseconds the clock advances by single steps
MaxTick == 1
\* the number of times the clock jumps ahead by the default ttl
MaxYears == 1
\* let mut buffer: [u8; 1024]
BufSize == 1024
\* the clock reading at start, in seconds since the epoch
StartSecs == 1700000000

VARIABLES
    store,      \* the HashMap behind the Arc<RwLock<..>>
    writer,     \* the connection whose handler holds the write guard, or None
    readers,    \* the connections whose handlers hold a read guard
    waitq,      \* the handlers waiting in store.write() or store.read(), in order
    now,        \* what get_time() returns
    listener,   \* TRUE while main's accept loop runs
    pc,         \* where each connection's handler is
    inbox,      \* the bytes sent by the client and not yet read
    eof,        \* TRUE once the client has closed its end
    cmd,        \* command of handle_client
    pend,       \* key, value and expiration of handle_command
    reply,      \* res of handle_client
    nsent,      \* the number of times the clients have sent a frame or closed
    owed,       \* for each handler, the commands decoded and not yet replied to
    fault,      \* why each handler panicked ("empty": on the buffer of a read of
                \* zero bytes, "read": in read()), "none" if it has not
    dirty,      \* TRUE if the step in which the handler panicked changed the store
    hist,       \* for each key, the last completed SET
    obs,        \* what the current SET or GET did and saw
    unsent,     \* the rest of a frame the client has sent the start of
    reset,      \* "no" until the connection is reset by the client, then
                \* "pending" until a write of the handler has returned the error
                \* of the socket, then "taken"
    pin,        \* the buffer given to the decoder
    pexp,       \* the value whose encoding the buffer starts with
    pout        \* the decoder's result

lockVars == <<writer, readers, waitq>>
connVars == <<pc, inbox, eof, cmd, pend, reply, nsent>>
ghostVars == <<owed, fault, dirty, hist, obs>>
parseVars == <<pin, pexp, pout>>
vars == <<store, lockVars, now, listener, connVars, unsent, reset, ghostVars, parseVars>>

EmptyMap == [k \in {} |-> StoredValue(<<>>, Zero)]
NoEntry == [value |-> <<>>, expiry |-> Zero, present |-> FALSE]
Entry(sv) == [value |-> sv.value, expiry |-> sv.expiry, present |-> TRUE]
Lookup(map, key) == IF key \in DOMAIN map THEN Entry(map[key]) ELSE NoEntry

NoPend == [key |-> <<>>, value |-> <<>>, expiration |-> Zero, at |-> Zero]
\* hist[k]: the arguments of the last completed SET on k, the clock reading it
\* took (at), the expiration it computed, and the expiry of the entry it
\* overwrote (Zero if it overwrote none)
NoHist == [set |-> FALSE, args |-> <<>>, at |-> Zero, expiration |-> Zero,
           over |-> Zero]
\* obs[c]: the clock reading the command took, the last completed SET on its key
\* and the entry under its key when it held the guard (for a SET, the entry it
\* left), the handlers that had panicked by then, and the handlers that held a
\* read guard when the GET read the map
NoObs == [at |-> Zero, last |-> NoHist, entry |-> NoEntry, dead |-> {}, held |-> {}]
NotParsed == [ok |-> FALSE, val |-> NoValue, pos |-> 0, err |-> "pending"]

ServerInit ==
    /\ store = EmptyMap
    /\ writer = None
    /\ readers = {}
    /\ waitq = <<>>
    /\ now = from_secs(StartSecs)
    /\ listener = TRUE
    /\ pc = [c \in Conns |-> "none"]
    /\ inbox = [c \in Conns |-> <<>>]
    /\ eof = [c \in Conns |-> FALSE]
    /\ cmd = [c \in Conns |-> NoCommand]
    /\ pend = [c \in Conns |-> NoPend]
    /\ reply = [c \in Conns |-> <<>>]
    /\ nsent = 0
    /\ owed = [c \in Conns |-> 0]
    /\ fault = [c \in Conns |-> "none"]
    /\ dirty = [c \in Conns |-> FALSE]
    /\ hist = EmptyMap
    /\ obs = [c \in Conns |-> NoObs]
    /\ unsent = [c \in Conns |-> <<>>]
    /\ reset = [c \in Conns |-> "no"]

Init ==
    /\ ServerInit
    /\ pin = <<>>
    /\ pexp = NoValue
    /\ pout = NotParsed

Min(a, b) == IF a < b THEN a ELSE b

\* main: listener.accept() returns a stream and the handler is spawned
Accept(c) ==
    /\ listener
    /\ pc[c] = "none"
    /\ pc' = [pc EXCEPT ![c] = "read"]
    /\ UNCHANGED <<store, lockVars, now, listener, inbox, eof, cmd, pend, reply,
                   nsent, ghostVars, parseVars, unsent, reset>>

\* the client of connection c sends frame f; a client that does not pipeline
\* sends once it has the reply to the frame before
Send(c, f, pipeline) ==
    /\ pc[c] \notin {"none", "dead"}
    /\ ~eof[c] /\ reset[c] = "no"
    /\ unsent[c] = <<>>
    /\ nsent < MaxSends
    /\ pipeline \/ (pc[c] = "read" /\ inbox[c] = <<>>)
    /\ inbox' = [inbox EXCEPT ![c] = @ \o f]
    /\ nsent' = nsent + 1
    /\ UNCHANGED <<store, lockVars, now, listener, pc, eof, cmd, pend, reply,
                   ghostVars, parseVars, unsent, reset>>

\* the client of connection c closes its end: the reads of the handler return
\* what has arrived, then zero bytes
Close(c) ==
    /\ pc[c] \notin {"none", "dead"}
    /\ ~eof[c] /\ reset[c] = "no"
    /\ nsent < MaxSends
    /\ eof' = [eof EXCEPT ![c] = TRUE]
    /\ nsent' = nsent + 1
    /\ UNCHANGED <<store, lockVars, now, listener, pc, inbox, cmd, pend, reply,
                   ghostVars, parseVars, unsent, reset>>

\* the client of connection c resets the connection, as it does when it closes
\* the socket with a reply unread or is sent a reply after it has closed: the
\* socket of the handler has an error pending
Reset(c) ==
    /\ pc[c] \notin {"none", "dead"}
    /\ reset[c] = "no"
    /\ nsent < MaxSends
    /\ reset' = [reset EXCEPT ![c] = "pending"]
    /\ nsent' = nsent + 1
    /\ UNCHANGED <<store, lockVars, now, listener, pc, inbox, eof, cmd, pend, reply,
                   ghostVars, parseVars, unsent>>

\* a variant of Panicked in which a panic aborts the process
PanickedAbort(c) ==
    [pc |-> [x \in Conns |-> "dead"], listener |-> FALSE]

\* a panic in the task spawned for connection c ends that task
Panicked(c) ==
    [pc |-> [pc EXCEPT ![c] = "dead"], listener |-> listener]

\* the command decoded from buf, NoCommand if none is
CommandOf(buf) ==
    IF parse_value(buf, 0).ok THEN get_command(parse_value(buf, 0).val)
    ELSE NoCommand

\* the next iteration reads into a fresh buffer: the n bytes read are gone
Unread(bytes, n) == SubSeq(bytes, n + 1, Len(bytes))

\* handle_client: read() returns n bytes, the bytes that have arrived and fit
\* the buffer (n = 0 when nothing is left and the client has closed its end or
\* the error of a reset has been returned by a write), the bytes
\* are logged as a String, the buffer is decoded and the command runs: PING and
\* ECHO to their reply, SET to its call of get_time(), GET to its place among
\* the handlers that wait for the store
Read(c, n) ==
    LET buf == SubSeq(inbox[c], 1, n)
        d == Decode(buf)
        command == IF from_utf8(buf).ok THEN CommandOf(buf) ELSE NoCommand
    IN  /\ pc[c] = "read"
        /\ cmd' = [cmd EXCEPT ![c] = command]
        /\ owed' = [owed EXCEPT ![c] = IF command.ok THEN @ + 1 ELSE @]
        /\ UNCHANGED <<store, writer, readers, now, eof, nsent, hist, obs,
                       parseVars, unsent, reset>>
        /\ IF d.kind = "panic"
           THEN /\ pc' = Panicked(c).pc
                /\ listener' = Panicked(c).listener
                /\ fault' = [fault EXCEPT ![c] = IF n = 0 THEN "empty" ELSE d.why]
                /\ dirty' = [dirty EXCEPT ![c] = (store' # store)]
                /\ inbox' = [inbox EXCEPT ![c] = <<>>]
                /\ UNCHANGED <<waitq, pend, reply>>
           ELSE /\ inbox' = [inbox EXCEPT ![c] = Unread(@, n)]
                /\ UNCHANGED <<listener, fault, dirty>>
                /\ CASE d.kind = "reply" ->
                          /\ reply' = [reply EXCEPT ![c] = d.reply]
                          /\ pc' = [pc EXCEPT ![c] = "write"]
                          /\ UNCHANGED <<waitq, pend>>
                     [] d.kind = "set" ->
                          /\ pend' = [pend EXCEPT ![c] =
                                 [key |-> d.key, value |-> d.value,
                                  expiration |-> NatAdd(now, d.ttl), at |-> now]]
                          /\ pc' = [pc EXCEPT ![c] = "set_timed"]
                          /\ UNCHANGED <<waitq, reply>>
                     [] d.kind = "get" ->
                          /\ pend' = [pend EXCEPT ![c] =
                                 [key |-> d.key, value |-> <<>>,
                                  expiration |-> Zero, at |-> Zero]]
                          /\ waitq' = Append(waitq, c)
                          /\ pc' = [pc EXCEPT ![c] = "get_wait"]
                          /\ UNCHANGED reply

\* read(): stream.read() returns Err when nothing that arrived is left, the
\* client has not closed its end and the error of a reset is pending, and the
\* handler panics there
ReadErr(c) ==
    /\ pc[c] = "read"
    /\ inbox[c] = <<>> /\ ~eof[c] /\ reset[c] = "pending"
    /\ pc' = Panicked(c).pc
    /\ listener' = Panicked(c).listener
    /\ fault' = [fault EXCEPT ![c] = "read"]
    /\ UNCHANGED <<store, lockVars, now, inbox, eof, cmd, pend, reply, nsent, owed,
                   dirty, hist, obs, parseVars, unsent, reset>>

\* store.write() is called with the expiration computed: the handler takes its
\* place among the handlers that wait for the store; the other handlers may
\* have run since it read the clock
WaitWrite(c) ==
    /\ pc[c] = "set_timed"
    /\ waitq' = Append(waitq, c)
    /\ pc' = [pc EXCEPT ![c] = "set_wait"]
    /\ UNCHANGED <<store, writer, readers, now, listener, inbox, eof, cmd, pend,
                   reply, nsent, ghostVars, parseVars, unsent, reset>>

\* RwLock::write: granted to the first in the queue once no guard is held
CanWrite(c) ==
    /\ waitq # <<>> /\ Head(waitq) = c
    /\ writer = None /\ readers = {}

\* store.write().await returns the write guard
AcquireWrite(c) ==
    /\ pc[c] = "set_wait"
    /\ CanWrite(c)
    /\ writer' = c
    /\ waitq' = Tail(waitq)
    /\ pc' = [pc EXCEPT ![c] = "set_hold"]
    /\ UNCHANGED <<store, readers, now, listener, inbox, eof, cmd, pend, reply,
                   nsent, ghostVars, parseVars, unsent, reset>>

\* a variant of DropWritable in which the guard outlives the arm
KeepWritable(c) == c

\* writable goes out of scope at the end of the "SET" arm
DropWritable(c) == None

\* writable.insert(..), the guard is dropped, the reply is "+OK\r\n"
SetInsert(c) ==
    /\ pc[c] = "set_hold"
    /\ store' = Insert(store, pend[c].key,
                       StoredValue(pend[c].value, pend[c].expiration))
    /\ writer' = DropWritable(c)
    /\ reply' = [reply EXCEPT ![c] = OkReply]
    /\ pc' = [pc EXCEPT ![c] = "write"]
    /\ hist' = [k \in DOMAIN hist \cup {pend[c].key} |->
                  IF k = pend[c].key
                  THEN [set |-> TRUE, args |-> cmd[c].args, at |-> pend[c].at,
                        expiration |-> pend[c].expiration,
                        over |-> Lookup(store, pend[c].key).expiry]
                  ELSE hist[k]]
    /\ obs' = [obs EXCEPT ![c] =
                  [at |-> pend[c].at, last |-> NoHist,
                   entry |-> Lookup(store', pend[c].key),
                   dead |-> {x \in Conns : pc[x] = "dead"},
                   held |-> {}]]
    /\ UNCHANGED <<readers, waitq, now, listener, inbox, eof, cmd, pend, nsent,
                   owed, fault, dirty, parseVars, unsent, reset>>

\* store.read().await returns a read guard
AcquireRead(c) ==
    /\ pc[c] = "get_wait"
    /\ waitq # <<>> /\ Head(waitq) = c
    /\ writer = None
    /\ readers' = readers \cup {c}
    /\ waitq' = Tail(waitq)
    /\ pc' = [pc EXCEPT ![c] = "get_hold"]
    /\ UNCHANGED <<store, writer, now, listener, inbox, eof, cmd, pend, reply,
                   nsent, ghostVars, parseVars, unsent, reset>>

\* a variant of Shared in which only the first handler is given the store
SharedOwn(c) == IF c = "A" THEN store ELSE EmptyMap

\* Arc::clone(&store): the map the handler of connection c is given
Shared(c) == store

\* a variant of DropReadable in which the guard outlives the arm
KeepReadable(c) == readers

\* readable goes out of scope at the end of the "GET" arm
DropReadable(c) == readers \ {c}

\* readable.get(&str), the expiry test, the guard is dropped
GetRead(c) ==
    /\ pc[c] = "get_hold"
    /\ reply' = [reply EXCEPT ![c] = GetReply(Shared(c), pend[c].key, now)]
    /\ readers' = DropReadable(c)
    /\ pc' = [pc EXCEPT ![c] = "write"]
    /\ obs' = [obs EXCEPT ![c] =
                  [at |-> now,
                   last |-> IF pend[c].key \in DOMAIN hist
                            THEN hist[pend[c].key] ELSE NoHist,
                   entry |-> Lookup(store, pend[c].key),
                   dead |-> {x \in Conns : pc[x] = "dead"},
                   held |-> readers]]
    /\ UNCHANGED <<store, writer, waitq, now, listener, inbox, eof, cmd, pend,
                   nsent, owed, fault, dirty, hist, parseVars,
                   unsent, reset>>

\* stream.write_all(res.as_bytes()).await has returned and its result is
\* dropped: the reply is on the socket unless the connection is reset, where
\* the write fails
Written(c) == IF reset[c] = "no" THEN [owed EXCEPT ![c] = @ - 1] ELSE owed

\* the reply is written, or the write fails and returns the error of the
\* socket, and the loop of handle_client starts over
Write(c) ==
    /\ pc[c] = "write"
    /\ owed' = Written(c)
    /\ reset' = [reset EXCEPT ![c] = IF @ = "pending" THEN "taken" ELSE @]
    /\ pc' = [pc EXCEPT ![c] = "read"]
    /\ cmd' = [cmd EXCEPT ![c] = NoCommand]
    /\ pend' = [pend EXCEPT ![c] = NoPend]
    /\ obs' = [obs EXCEPT ![c] = NoObs]
    /\ reply' = [reply EXCEPT ![c] = <<>>]
    /\ UNCHANGED <<store, lockVars, now, listener, inbox, eof, nsent, fault,
                   dirty, hist, parseVars, unsent>>

\* a millisecond passes
Tick ==
    /\ Millis(now) < MaxTick
    /\ now' = NatAdd(now, <<1>>)
    /\ UNCHANGED <<store, lockVars, listener, connVars, ghostVars, parseVars, unsent, reset>>

\* as much time as the default ttl passes
YearPass ==
    /\ Secs(now) < StartSecs + MaxYears * Secs(DefaultTtl)
    /\ now' = NatAdd(now, DefaultTtl)
    /\ UNCHANGED <<store, lockVars, listener, connVars, ghostVars, parseVars, unsent, reset>>

\* the steps of the handlers
HandlerNext ==
    \/ \E c \in Conns :
          /\ inbox[c] = <<>> => (eof[c] \/ reset[c] = "taken")
          /\ Read(c, Min(Len(inbox[c]), BufSize))
    \/ \E c \in Conns : WaitWrite(c)
    \/ \E c \in Conns : AcquireWrite(c)
    \/ \E c \in Conns : SetInsert(c)
    \/ \E c \in Conns : AcquireRead(c)
    \/ \E c \in Conns : GetRead(c)
    \/ \E c \in Conns : Write(c)

\* the steps of the server and of the clients of the connections CS, which
\* send frames of FS
NextOf(FS, CS, pipeline) ==
    \/ \E c \in CS : Accept(c)
    \/ \E c \in Conns : \E f \in FS : Send(c, f, pipeline)
    \/ HandlerNext
    \/ Tick
    \/ YearPass


\* clients that wait for each reply and send SET and GET, with and without PX
KvNext == NextOf(Encoded(KvCommands), Conns, FALSE)
KvSpec == Init /\ [][KvNext]_vars

\* clients that wait for each reply and send SET with PX and GET
PxNext == NextOf(Encoded(PxCommands), Conns, FALSE)
PxSpec == Init /\ [][PxNext]_vars

\* one client that waits for each reply and sends every shape of SET
SetNext == NextOf(SetFrames, {"A"}, FALSE)
SetSpec == Init /\ [][SetNext]_vars

\* clients that wait for each reply and send frames the server rejects
ErrNext == NextOf(ErrFrames, Conns, FALSE)
ErrSpec == Init /\ [][ErrNext]_vars

\* clients that pipeline, close their end and reset the connection, while the
\* clock stands still
Next ==
    \/ \E c \in Conns : Accept(c)
    \/ \E c \in Conns : \E f \in Encoded(NetCommands) : Send(c, f, TRUE)
    \/ \E c \in Conns : Close(c)
    \/ \E c \in Conns : Reset(c)
    \/ \E c \in Conns : ReadErr(c)
    \/ HandlerNext
Spec == Init /\ [][Next]_vars

\* the client of connection A sends SET, the client of connection B sends GET,
\* each waits for the reply to the frame before
ShareSets ==
    { <<T_SET, K1, VA>>,
      SetPx(K1, VB, <<"1">>),
      <<T_SET, K2, VB>> }
ShareGets == {<<T_GET, K1>>, <<T_GET, K2>>}

ShareNext ==
    \/ \E c \in Conns : Accept(c)
    \/ \E f \in Encoded(ShareSets) : Send("A", f, FALSE)
    \/ \E f \in Encoded(ShareGets) : Send("B", f, FALSE)
    \/ HandlerNext
    \/ Tick
    \/ YearPass
ShareSpec == Init /\ [][ShareNext]_vars

\* clients that wait for each reply, send SET without and with PX, GET and a
\* command the server rejects, close their end and reset the connection, while
\* the clock goes; the scheduler runs every handler that can take a step
LockCommands ==
    { <<T_SET, K1, VA>>,
      SetPx(K1, VB, <<"0">>),
      <<T_GET, K1>>,
      <<<<"F", "O", "O">>>> }

LockNext ==
    \/ \E c \in Conns : Accept(c)
    \/ \E c \in Conns : \E f \in Encoded(LockCommands) : Send(c, f, FALSE)
    \/ \E c \in Conns : Close(c)
    \/ \E c \in Conns : Reset(c)
    \/ \E c \in Conns : ReadErr(c)
    \/ HandlerNext
    \/ Tick

LockFairness ==
    \A c \in Conns :
        /\ WF_vars(WaitWrite(c))
        /\ WF_vars(AcquireWrite(c))
        /\ WF_vars(SetInsert(c))
        /\ WF_vars(AcquireRead(c))
        /\ WF_vars(GetRead(c))

LockSpec == Init /\ [][LockNext]_vars /\ LockFairness

\* the client of connection c sends the first i bytes of frame f and keeps
\* the rest for later
SendPart(c, f, i) ==
    /\ pc[c] = "read" /\ inbox[c] = <<>>
    /\ ~eof[c] /\ reset[c] = "no"
    /\ unsent[c] = <<>>
    /\ nsent < MaxSends
    /\ inbox' = [inbox EXCEPT ![c] = SubSeq(f, 1, i)]
    /\ unsent' = [unsent EXCEPT ![c] = SubSeq(f, i + 1, Len(f))]
    /\ nsent' = nsent + 1
    /\ UNCHANGED <<store, lockVars, now, listener, pc, eof, cmd, pend, reply,
                   ghostVars, parseVars, reset>>

\* the rest of the frame arrives
SendRest(c) ==
    /\ unsent[c] # <<>>
    /\ pc[c] # "dead"
    /\ inbox' = [inbox EXCEPT ![c] = @ \o unsent[c]]
    /\ unsent' = [unsent EXCEPT ![c] = <<>>]
    /\ UNCHANGED <<store, lockVars, now, listener, pc, eof, cmd, pend, reply,
                   nsent, ghostVars, parseVars, reset>>

\* a value as long as the read buffer: its frame does not fit one read
BigValue == [i \in 1..BufSize |-> "a"]

SplitCommands ==
    { <<T_PING>>,
      <<T_SET, K1, VA>>,
      <<T_GET, K1>>,
      <<T_ECHO, BigValue>> }

\* one client that waits for each reply and sends its frames whole or in two
\* parts
SplitNext ==
    \/ Accept("A")
    \/ \E f \in Encoded(SplitCommands) : Send("A", f, FALSE)
    \/ \E f \in Encoded(SplitCommands) : \E i \in 1..(Len(f) - 1) :
          SendPart("A", f, i)
    \/ SendRest("A")
    \/ HandlerNext

SplitSpec == Init /\ [][SplitNext]_vars

\* clients that wait for each reply and send every command, SET on two keys
KeepCommands ==
    { <<T_PING>>,
      <<T_ECHO, VA>>,
      SetPx(K1, VA, <<"0">>),
      <<T_SET, K2, VB>>,
      <<T_GET, K1>> }

KeepNext == NextOf(Encoded(KeepCommands), Conns, FALSE)
KeepSpec == Init /\ [][KeepNext]_vars

\* one client that pipelines; one of its commands has an argument that is no
\* UTF-8
PipeCommands ==
    { <<T_PING>>,
      <<T_ECHO, VA>>,
      <<T_ECHO, NotUtf8>>,
      <<T_SET, K1, VA>>,
      <<T_GET, K1>> }

PipeNext == NextOf(Encoded(PipeCommands), {"A"}, TRUE)
PipeSpec == Init /\ [][PipeNext]_vars

(***************************************************************************)
(* The decoder on its own: a buffer that starts with the encoding of a     *)
(* value, followed by nothing or by the start of another frame.            *)
(***************************************************************************)
\* the longest payload of the bulk strings enumerated in full
MaxPayload == 3

PayloadBytes == {"a", "b", CR}

\* the payloads of section 8 of the specification, ten bytes and more
LongPayloads ==
    { <<"h", "e", "l", "l", "o", "w", "o", "r", "l", "d">>,
      <<"h", "e", "l", "l", "o", "w", "o", "r", "l", "d", "!", "!">> }

Payloads ==
    UNION {[1..n -> PayloadBytes] : n \in 0..MaxPayload} \cup LongPayloads

Tails == {<<>>, <<"+", "O", "K">> \o CRLF}

ParseInit ==
    /\ ServerInit
    /\ \E x \in Payloads : \E tail \in Tails :
          /\ pexp = BulkString(x)
          /\ pin = EncodeBulk(x) \o tail
    /\ pout = NotParsed

\* Parser::new(buf).parse_value()
ParseStep ==
    /\ pout.err = "pending"
    /\ pout' = parse_value(pin, 0)
    /\ UNCHANGED <<store, lockVars, now, listener, connVars, ghostVars, pin, pexp,
                   unsent, reset>>

ParseSpec == ParseInit /\ [][ParseStep]_vars

(***************************************************************************)
(* The decoder on arrays: a buffer that starts with the encoding of an     *)
(* array of simple strings, bulk strings and arrays.                       *)
(***************************************************************************)
RECURSIVE EncodeValue(_), EncodeAll(_)
\* the RESP encoding of a value
EncodeValue(v) ==
    CASE v.t = "SimpleString" -> <<"+">> \o v.s \o CRLF
      [] v.t = "BulkString" -> EncodeBulk(v.s)
      [] v.t = "Array" -> <<"*">> \o Dec(Len(v.a)) \o CRLF \o EncodeAll(v.a)
\* the encodings of the values of a sequence, one after the other
EncodeAll(vs) ==
    IF vs = <<>> THEN <<>> ELSE EncodeValue(vs[1]) \o EncodeAll(Tail(vs))

\* the longest array enumerated
MaxItems == 2

HelloWorld == <<"h", "e", "l", "l", "o", "w", "o", "r", "l", "d">>

Elements ==
    { SimpleString(<<"A", "B">>),
      BulkString(<<>>),
      BulkString(<<"h", "e", "y">>),
      BulkString(HelloWorld),
      Array(<<>>),
      Array(<<SimpleString(<<"C", "D">>)>>) }

Arrays == {Array(v) : v \in UNION {[1..n -> Elements] : n \in 0..MaxItems}}

ArrInit ==
    /\ ServerInit
    /\ \E x \in Arrays : \E tail \in Tails :
          /\ pexp = x
          /\ pin = EncodeValue(x) \o tail
    /\ pout = NotParsed

ArrSpec == ArrInit /\ [][ParseStep]_vars

(***************************************************************************)
(* The command extractor on its own: the buffer is the encoding of a root  *)
(* value, get_command is given what the decoder makes of it.               *)
(***************************************************************************)
\* the longest root array enumerated
MaxTokens == 3

Tokens ==
    { BulkString(T_PING),
      SimpleString(<<"a">>),
      BulkString(K1),
      Array(<<>>) }

Roots ==
    {Array(v) : v \in UNION {[1..n -> Tokens] : n \in 0..MaxTokens}}
        \cup {SimpleString(T_PING), BulkString(T_PING)}

ExtractInit ==
    /\ ServerInit
    /\ \E x \in Roots :
          /\ pexp = x
          /\ pin = EncodeValue(x)
    /\ pout = NotParsed

\* get_command(Parser::new(&buffer[..n]).parse_value())
Extract ==
    /\ pout.err = "pending"
    /\ pout' = parse_value(pin, 0)
    /\ cmd' = [cmd EXCEPT !["A"] = CommandOf(pin)]
    /\ UNCHANGED <<store, lockVars, now, listener, pc, inbox, eof, pend, reply,
                   nsent, ghostVars, pin, pexp, unsent, reset>>

ExtractSpec == ExtractInit /\ [][Extract]_vars

(***************************************************************************)
(* The decoder on input it cannot decode: a buffer that ends before the    *)
(* end of the encoding of a value (pexp is the value), or a buffer with a  *)
(* byte outside the grammar (pexp is NoValue).                             *)
(***************************************************************************)
\* an unsupported leading byte, a count that is no number, a count above
\* i64::MAX, strings that are no UTF-8, a bulk string and a simple string with
\* other bytes in the place of CRLF
Malformed ==
    { <<"?">> \o CRLF,
      <<"*", "x">> \o CRLF,
      <<"*">> \o U64MaxText \o CRLF,
      <<"+">> \o NotUtf8 \o CRLF,
      <<"$", "1">> \o CRLF \o NotUtf8 \o CRLF,
      <<"$", "3">> \o CRLF \o <<"h", "e", "y", "!", "!">>,
      <<"+", "A", "B", "!", "!">> }

Prefixes(buf) == {SubSeq(buf, 1, n) : n \in 0..(Len(buf) - 1)}

PrefixInit ==
    /\ ServerInit
    /\ \/ \E x \in Elements : \E b \in Prefixes(EncodeValue(x)) :
             /\ pexp = x
             /\ pin = b
       \/ \E b \in Malformed :
             /\ pexp = NoValue
             /\ pin = b
    /\ pout = NotParsed

PrefixSpec == PrefixInit /\ [][ParseStep]_vars

(***************************************************************************)
(* The claims.  A command is finished when its handler is about to write   *)
(* the reply (pc = "write", the reply is reply[c]) or has panicked.        *)
(***************************************************************************)
IsSet(c) == cmd[c].ok /\ to_ascii_uppercase(cmd[c].name) = T_SET
IsGet(c) == cmd[c].ok /\ to_ascii_uppercase(cmd[c].name) = T_GET
Replying(c) == pc[c] = "write"

\* SET k v: key and value and nothing else
PlainSet(args) == Len(args) = 2 /\ IsString(args[1]) /\ IsString(args[2])

\* the third token is PX in either case and a fourth, numeric token follows
PxFollows(args) ==
    /\ Len(args) >= 4
    /\ IsString(args[3]) /\ to_ascii_uppercase(args[3].s) = T_PX
    /\ IsString(args[4]) /\ ParseU64(args[4].s).ok

\* SET k v PX t
PxSet(args) == Len(args) = 4 /\ IsString(args[1]) /\ IsString(args[2]) /\ PxFollows(args)
PxMs(args) == ParseU64(args[4].s).n

\* a <= b on millisecond counts
TimeLeq(a, b) == ~NatLess(b, a)

\* C1: a GET k that follows a SET k v without PX, with no SET on k in between
\* and within the default ttl of the SET's clock reading, replies with the bulk
\* string v.
C1_SetThenGet ==
    \A c \in Conns :
        ( /\ Replying(c) /\ IsGet(c)
          /\ obs[c].last.set /\ PlainSet(obs[c].last.args)
          /\ TimeLeq(obs[c].at, NatAdd(obs[c].last.at, DefaultTtl)) )
        => reply[c] = BulkReply(obs[c].last.args[2].s)

\* a GET has just answered with the value of the plain SET before it
C1_Witness ==
    \E c \in Conns :
        /\ Replying(c) /\ IsGet(c)
        /\ obs[c].last.set /\ PlainSet(obs[c].last.args)
        /\ NatLess(obs[c].last.at, obs[c].at)
        /\ reply[c] = BulkReply(VA)

\* C2: after SET k v PX t read the clock at T, a GET k at a clock reading
\* greater than T + t, with no SET on k in between, replies with the null bulk
\* reply.
C2_PxExpires ==
    \A c \in Conns :
        ( /\ Replying(c) /\ IsGet(c)
          /\ obs[c].last.set /\ PxSet(obs[c].last.args)
          /\ NatLess(NatAdd(obs[c].last.at, from_millis(PxMs(obs[c].last.args))),
                      obs[c].at) )
        => reply[c] = NullReply

\* a GET one millisecond after a SET with PX 0 has answered null
C2_Witness ==
    \E c \in Conns :
        /\ Replying(c) /\ IsGet(c)
        /\ obs[c].last.set /\ PxSet(obs[c].last.args)
        /\ PxMs(obs[c].last.args) = Zero
        /\ obs[c].at = NatAdd(obs[c].last.at, <<1>>)
        /\ reply[c] = NullReply

\* C3: the entry of a key is the value and the expiration of the last SET on it
\* and nothing of an entry that SET overwrote, and a GET answers from the last
\* SET alone.
C3_LastWriteWins ==
    /\ \A k \in DOMAIN hist :
          /\ k \in DOMAIN store
          /\ store[k] = StoredValue(hist[k].args[2].s, hist[k].expiration)
    /\ \A c \in Conns :
          /\ (Replying(c) /\ IsSet(c)) =>
                obs[c].entry = Entry(StoredValue(pend[c].value, pend[c].expiration))
          /\ (Replying(c) /\ IsGet(c) /\ obs[c].last.set) =>
                reply[c] = IF NatLess(obs[c].last.expiration, obs[c].at)
                           THEN NullReply
                           ELSE BulkReply(obs[c].last.args[2].s)

\* a GET answers with the value of a SET without PX that overwrote an entry
\* whose expiry has passed by the time of the GET
C3_Witness ==
    \E c \in Conns :
        /\ Replying(c) /\ IsGet(c)
        /\ obs[c].last.set /\ PlainSet(obs[c].last.args)
        /\ obs[c].last.over # Zero
        /\ NatLess(obs[c].last.over, obs[c].at)
        /\ reply[c] = BulkReply(obs[c].last.args[2].s)

\* C4: a GET k at a clock reading equal to the expiry of the entry of k replies
\* with the null bulk reply.
C4_NullAtExpiry ==
    \A c \in Conns :
        ( /\ Replying(c) /\ IsGet(c)
          /\ obs[c].entry.present
          /\ obs[c].entry.expiry = obs[c].at )
        => reply[c] = NullReply

\* the reply that handle_command gives command
ReplyFits(command, bytes) ==
    LET name == to_ascii_uppercase(command.name)
    IN  CASE name = T_PING -> bytes = PongReply
          [] name = T_ECHO ->
                bytes = SimpleReply(Concat([i \in 1..Len(command.args) |->
                                               command.args[i].s]))
          [] name = T_SET -> bytes = OkReply
          [] name = T_GET -> bytes[1] = "$"
          [] OTHER -> FALSE

\* the bytes a read of the handler of connection c returns
Incoming(c) == SubSeq(inbox[c], 1, Min(Len(inbox[c]), BufSize))

\* the bytes of buf after the value it starts with
AfterFirst(buf) == SubSeq(buf, parse_value(buf, 0).pos + 1, Len(buf))

\* C5: when a read gives the handler a command that it runs, the reply to
\* every command it read before is on the socket and no command frame that came
\* with the bytes of the read is left unexecuted; the reply the handler writes
\* is the reply to the command it decoded last.
C5_OneAtATime ==
    [][ \A c \in Conns :
          /\ (pc[c] = "read" /\ pc'[c] \notin {"read", "dead"}) =>
                /\ owed[c] = 0
                /\ ~CommandOf(AfterFirst(Incoming(c))).ok
          /\ (pc[c] = "write" /\ pc'[c] = "read") => ReplyFits(cmd[c], reply[c]) ]_vars

\* C6: a handler ends by its own panic only, the listener stays, the step of
\* the panic leaves the store as it was, a handler that has panicked holds no
\* guard and waits for none, connections not yet accepted can be, and the
\* handlers that wait for the store are the live ones in the queue.
C6_FailureIsLocal ==
    /\ listener
    /\ \A c \in Conns :
          /\ pc[c] = "dead" => fault[c] # "none"
          /\ ~dirty[c]
          /\ pc[c] = "dead" =>
                (writer # c /\ c \notin readers /\ \A i \in 1..Len(waitq) : waitq[i] # c)
          /\ pc[c] = "none" => ENABLED Accept(c)
          /\ pc[c] \in {"set_wait", "get_wait"} =>
                \E i \in 1..Len(waitq) : waitq[i] = c

\* a GET on one connection reads the stored value after the handler of the
\* other connection has panicked
C6_Witness ==
    \E c \in Conns : \E d \in Conns \ {c} :
        /\ pc[c] = "dead"
        /\ Replying(d) /\ IsGet(d)
        /\ c \in obs[d].dead
        /\ reply[d] = BulkReply(VA)

\* C7: a handler that has ended on a command of unknown name has written a
\* reply to it.
C7_UnknownReplied ==
    \A c \in Conns : fault[c] = "unknown" => owed[c] = 0

\* C8: a handler that has ended on a known command with wrong arguments has
\* written a reply to it, and the store is as it was before the command.
C8_ArgumentReplied ==
    \A c \in Conns : fault[c] = "argument" => (owed[c] = 0 /\ ~dirty[c])

\* the SET of connection c has stored value and clock reading + ttl and
\* answers +OK
Stored(c, ttl) ==
    /\ Replying(c)
    /\ reply[c] = OkReply
    /\ obs[c].entry = Entry(StoredValue(cmd[c].args[2].s, NatAdd(obs[c].at, ttl)))

\* a SET with key and value that is finished
SetFinished(c) ==
    /\ IsSet(c)
    /\ Len(cmd[c].args) >= 2 /\ IsString(cmd[c].args[1]) /\ IsString(cmd[c].args[2])
    /\ pc[c] \in {"write", "dead"}

\* C9: the ttl is the given milliseconds when PX and a number
\* follow the value; in every other case the entry is stored with the default
\* ttl; the reply is +OK.
C9_AsClaimed ==
    \A c \in Conns :
        SetFinished(c) =>
            IF PxFollows(cmd[c].args)
            THEN Stored(c, from_millis(PxMs(cmd[c].args)))
            ELSE Stored(c, DefaultTtl)

\* C10: decoding the encoding of a bulk string returns the bulk string of its
\* payload and the position after the CRLF that ends it.
C10_BulkDecoded ==
    (pout.err # "pending" /\ pexp.t = "BulkString") =>
        /\ pout.ok
        /\ pout.val = pexp
        /\ pout.pos = Len(EncodeBulk(pexp.s))

\* C11: decoding the encoding of an array returns the array of its elements
\* in their order and the position after the last byte of the last element.
C11_ArrayDecoded ==
    (pout.err # "pending" /\ pexp.t = "Array") =>
        /\ pout.ok
        /\ pout.val = pexp
        /\ pout.pos = Len(EncodeValue(pexp))

\* a non-empty array whose elements are all strings
AllStrings(v) ==
    /\ v.t = "Array"
    /\ v.a # <<>>
    /\ \A i \in 1..Len(v.a) : IsString(v.a[i])

\* C12: the extraction of a command from a root value succeeds exactly when
\* the root is a non-empty array of strings, and the command is then the text
\* of the first element with the other elements, in order, as arguments.
C12_CommandExtracted ==
    pout.err # "pending" =>
        /\ cmd["A"].ok <=> AllStrings(pexp)
        /\ cmd["A"].ok =>
              (cmd["A"].name = pexp.a[1].s /\ cmd["A"].args = Tail(pexp.a))

\* C13: where SET comes from connection A only and GET from connection B only,
\* a GET of B that follows a SET of A on its key, at a clock reading before the
\* expiration of that SET and with no SET on the key in between, replies with
\* the value of that SET.
C13_SharedStore ==
    ( /\ Replying("B") /\ IsGet("B")
      /\ obs["B"].last.set
      /\ NatLess(obs["B"].at, obs["B"].last.expiration) )
    => reply["B"] = BulkReply(obs["B"].last.args[2].s)

\* the +OK of a SET of A is written, A is back at its read, and a GET of B on
\* the key has the value
C13_Witness ==
    /\ pc["A"] = "read" /\ owed["A"] = 0
    /\ Replying("B") /\ IsGet("B")
    /\ obs["B"].last.set
    /\ reply["B"] = BulkReply(obs["B"].last.args[2].s)

\* while a handler holds the write guard no other handler holds a guard, and
\* handlers hold read guards only while no write guard is held
Discipline ==
    /\ \A c \in Conns : \A d \in Conns \ {c} :
          pc[c] = "set_hold" => pc[d] \notin {"set_hold", "get_hold"}
    /\ writer # None => readers = {}
    /\ \A c \in Conns :
          /\ pc[c] = "set_hold" <=> writer = c
          /\ pc[c] = "get_hold" <=> c \in readers

\* the GETs of c and d are about to reply, on the same key with the same last
\* SET, and held the store at the same time
Together(c, d) ==
    /\ Replying(c) /\ IsGet(c) /\ Replying(d) /\ IsGet(d)
    /\ cmd[c].args = cmd[d].args
    /\ obs[c].last = obs[d].last
    /\ (d \in obs[c].held \/ c \in obs[d].held)

\* the clock readings of the GETs of c and d are the same, or both before the
\* expiration of the last SET on the key, or both after it
NotAcrossExpiry(c, d) ==
    LET e == obs[c].last.expiration
    IN  \/ obs[c].at = obs[d].at
        \/ NatLess(obs[c].at, e) /\ NatLess(obs[d].at, e)
        \/ NatLess(e, obs[c].at) /\ NatLess(e, obs[d].at)

C15_SplitAccumulated ==
    \A c \in Conns :
        /\ unsent[c] # <<>> => pc[c] = "read"
        /\ pc[c] # "dead"
        /\ cmd[c].ok =>
              \E t \in SplitCommands :
                  /\ cmd[c].name = t[1]
                  /\ cmd[c].args = [i \in 1..(Len(t) - 1) |-> BulkString(t[i + 1])]

\* C16: a handler whose read returned zero bytes ends without a panic: no
\* handler has panicked on the empty buffer of such a read.
C16_CleanExit ==
    \A c \in Conns : (eof[c] /\ pc[c] = "dead") => fault[c] # "empty"

\* the decoder has panicked: an index past the end of the buffer, bytes that
\* are not UTF-8, a count that does not parse, an unsupported leading byte
IsAbort(r) == r.err \in {"index", "utf8", "number", "unsupported"}

\* C17: for a buffer that is a proper prefix of the encoding of a value and
\* for a buffer with a byte outside the grammar the decoder returns no value
\* and does not panic, and its outcome is not the same for the two.
C17_Distinguished ==
    pout.err # "pending" =>
        /\ ~pout.ok
        /\ ~IsAbort(pout)
        /\ pexp = NoValue <=> pout.err = "protocol"

\* C18: no step takes a key out of the map, and a step that changes the map is
\* the insert of a SET, which leaves the entry of every other key as it was.
C18_KeysStay ==
    [][ /\ DOMAIN store \subseteq DOMAIN store'
        /\ store' # store =>
              \E c \in Conns :
                  /\ pc[c] = "set_hold" /\ pc'[c] = "write" /\ IsSet(c)
                  /\ \A k \in DOMAIN store' \ {pend[c].key} :
                        k \in DOMAIN store /\ store'[k] = store[k] ]_vars

\* a GET has answered null on a key whose expired entry is still in the map,
\* next to the entry of another key
C18_Witness ==
    \E c \in Conns :
        /\ Replying(c) /\ IsGet(c)
        /\ reply[c] = NullReply
        /\ pend[c].key \in DOMAIN store
        /\ NatLess(store[pend[c].key].expiry, obs[c].at)
        /\ DOMAIN store = {K1, K2}

\* C19: a guard is held only by a live handler that is inside its SET or GET,
\* and every handler that waits for the store gets it and comes to its reply.
C19_LockNeverKept ==
    /\ [](\A c \in Conns :
             pc[c] \notin {"set_hold", "get_hold"} => (writer # c /\ c \notin readers))
    /\ \A c \in Conns :
          (pc[c] \in {"set_timed", "set_wait", "get_wait"}) ~> (pc[c] = "write")

\* a SET completes after the handler of the other connection has panicked
C19_Witness ==
    \E c \in Conns : \E d \in Conns \ {c} :
        /\ pc[c] = "dead"
        /\ Replying(d) /\ IsSet(d)
        /\ c \in obs[d].dead
        /\ reply[d] = OkReply

\* buf starts with the bytes of pre
StartsWith(buf, pre) == Len(pre) <= Len(buf) /\ SubSeq(buf, 1, Len(pre)) = pre

\* C20: a read that is given bytes starting with the frame of a command
\* decodes that command and no other, leaves none of the bytes it was given for
\* the next read, and makes the handler owe one reply.
C20_OneFramePerRead ==
    [][ \A c \in Conns : \A t \in PipeCommands :
          ( /\ pc[c] = "read" /\ pc'[c] # "read"
            /\ Len(inbox[c]) <= BufSize
            /\ StartsWith(inbox[c], EncodeCommand(t)) )
          => /\ cmd'[c] = Command(t[1], [i \in 1..(Len(t) - 1) |-> BulkString(t[i + 1])])
             /\ inbox'[c] = <<>>
             /\ owed'[c] = 1 ]_vars

====
